---- MODULE Spec2Model ----
(***************************************************************************)
(* A model of src/exercism.py: the rate-limited requester (request), the   *)
(* retrying JSON fetcher (get_json_with_retries under tenacity.retry), the *)
(* paginator (get_all_pages), the notification watcher                     *)
(* (notification_pusher), the solution syncer (update_exercises), the      *)
(* listings old_mentor_discussions and failing_solutions, and the          *)
(* finish/nudge driver (nudge), in the blocking client (Exercism) and the  *)
(* cooperative one (AsyncExercism).                                        *)
(*                                                                         *)
(* One action is one HTTP call, or one step of the code between two HTTP   *)
(* calls.  The server is nondeterministic: every HTTP call is answered by  *)
(* any response of Responses, or by a connection failure.                  *)
(*                                                                         *)
(* Durations are in tenths of a second (the code sleeps 0.2 s and 0.5 s).  *)
(***************************************************************************)
EXTENDS Integers, Sequences, FiniteSets, TLC

(***************************************************************************)
(* Bounds of the model.                                                    *)
(***************************************************************************)
\* The largest `retry-after` value (seconds) the server sends.
MaxRetryAfter == 1
\* The largest total_pages of a paginated endpoint, and the most records a
\* page holds.
MaxPages == 2
MaxPerPage == 2
\* The number of notification UUIDs the server knows.
MaxNotifications == 2
\* The number of candidate discussions, and the most posts of a discussion.
MaxCandidates == 2
MaxPosts == 6
\* The resolution of a timestamp: instants per day.
TicksPerDay == 2

(***************************************************************************)
(* Constants of the program.                                               *)
(***************************************************************************)
\* request(..., sleep: float = 0.5): the default pacing delay, in tenths.
SleepDefault == 5
\* get_json_with_retries(..., sleep: float = 0.2), in tenths.
SleepGetJson == 2
\* tenacity.stop_after_attempt(3)
StopAfterAttempt == 3
\* tenacity.wait_exponential(multiplier=2, min=15, max=60), in seconds.
WaitMultiplier == 2
WaitMin == 15
WaitMax == 60
\* nudge: `age.days > 300 and posts_since_updated > 5`.
FinishAgeDays == 300
FinishPosts == 5

Seconds(s) == 10 * s

Max2(a, b) == IF a >= b THEN a ELSE b
Min2(a, b) == IF a <= b THEN a ELSE b

(***************************************************************************)
(* The server's answers.  A response has a status and its `retry-after`    *)
(* header: the empty set when the header is absent, {d} when it is d.      *)
(***************************************************************************)
Statuses == {200, 404, 500}
RetryAfterHeaders == {{}} \cup {{d} : d \in 1..MaxRetryAfter}
Responses == [status : Statuses, retry_after : RetryAfterHeaders]

\* What the caller holds before any response is assigned to `resp`.
NoResponse == [status |-> 0, retry_after |-> {}, call |-> 0]

Modes == {"blocking", "cooperative"}

VARIABLES
    op,         \* the operation under way: the entry point that was called
    mode,       \* "blocking" (Exercism) or "cooperative" (AsyncExercism)
    \* ---- request (Exercism.request, and its inlined copy in AsyncExercism)
    func,       \* the HTTP method bound to `func`
    sleep,      \* the `sleep` argument
    rpc,        \* position in request: idle, call1, call2, returned, raised
    delay,      \* the local `delay`
    resp,       \* the local `resp`, with the index of the call that produced it
    rexc,       \* the exception request ended with, "none" otherwise
    calls,      \* HTTP calls issued by the current fetch
    \* ---- get_json_with_retries (the tenacity.retry wrapper)
    fpc,        \* idle, running, returned, raised
    attempt,    \* tenacity's attempt_number
    fexc,       \* the exception the wrapper ended with, "none" otherwise
    \* ---- what an observer of the operation under test sees
    http,       \* the HTTP exchanges, in order
    sleeps,     \* the sleeps, in order: <<kind, duration>>
    tries,      \* the outcome of each attempt of the wrapper, in order
    \* ---- the server's paginated endpoint
    total_pages,    \* meta.total_pages, stable across calls
    page_len,       \* the number of records of each page
    \* ---- get_all_pages
    ppc,        \* idle, start, fetching, returned, raised
    page,       \* the loop variable `page`
    params,     \* params["page"], a string
    all_data,   \* the accumulator
    page_reqs,  \* params["page"] of each call of get_json_with_retries
    pexc,       \* the exception get_all_pages ended with, "none" otherwise
    \* ---- notification_pusher
    wpc,        \* idle, start, priming, polling, raised_priming, raised_polling
    seen_notifications,     \* the set `seen_notifications`
    unread,     \* the local `unread` of the latest poll
    unseen,     \* the local `unseen` of the latest poll
    primed,     \* the UUIDs of the priming fetch
    delivered,  \* the UUIDs passed to `callback`, in order
    wexc,       \* the exception notification_pusher ended with
    \* ---- nudge (the finish/nudge driver)
    npc,        \* idle, begin, discovering, start, posts, decided, mutating,
                \* done, raised
    ids,        \* the candidates old_mentor_discussions returned
    idx,        \* the index in `ids` (then in to_finish, to_nudge) of the loop
    posts,      \* the posts fetched for ids[idx]
    to_finish,  \* the list `to_finish`
    to_nudge,   \* the list `to_nudge`
    sent,       \* the mutation requests handed to request: <<method, uuid>>
    nexc,       \* the exception nudge ended with, "none" otherwise
    \* ---- old_mentor_discussions and failing_solutions
    dpc,        \* idle, start, counting, listing, posts, returned, raised
    track,      \* the `track` argument of failing_solutions, "" for None
    page_count, \* the local `page_count`
    dpage,      \* the loop variable `page`
    page_results,   \* resp["results"] of the page at hand
    didx,       \* the index in `page_results` of the loop over the page
    uuids,      \* the accumulator of old_mentor_discussions
    solutions,  \* the accumulator of failing_solutions
    listed,     \* the number of records the listing has served so far
    list_reqs,  \* the `page` parameter of each request of the listing, in order
    examined,   \* what the server said of each discussion examined, in order
    dexc,       \* the exception the traversal ended with, "none" otherwise
    \* ---- update_exercises, called twice in succession
    spc,        \* idle, start, paging, syncing, returned, raised
    run,        \* the call under way: 1 or 2
    spos,       \* the index in `solutions` of the loop
    updates,    \* the list `updates`
    flagged,    \* the solutions of `solutions` whose is_out_of_date is true
    sexc,       \* the exception update_exercises ended with, "none" otherwise
    out_of_date,    \* the server's solutions whose is_out_of_date is true
    patched,    \* the syncs handed to patch: <<run, solution>>
    ended       \* how the first call ended, "" until it has

reqVars == <<func, sleep, rpc, delay, resp, rexc, calls>>
retryVars == <<fpc, attempt, fexc>>
histVars == <<http, sleeps, tries>>
serverVars == <<total_pages, page_len>>
pageVars == <<ppc, page, params, all_data, page_reqs, pexc>>
watchVars == <<wpc, seen_notifications, unread, unseen, primed, delivered, wexc>>
nudgeVars == <<npc, ids, idx, posts, to_finish, to_nudge, sent, nexc>>
discoverVars == <<dpc, track, page_count, dpage, page_results, didx, uuids, solutions,
                  listed, list_reqs, examined, dexc>>
syncVars == <<spc, run, spos, updates, flagged, sexc, out_of_date, patched, ended>>
\* The state of the callers of request and get_json_with_retries.
callerVars == <<serverVars, syncVars, discoverVars, pageVars, watchVars, nudgeVars>>
vars == <<op, mode, reqVars, retryVars, histVars, callerVars>>

\* The exchanges and sleeps are recorded for the operation under test only.
Tracing == op \in {"request", "get_json_with_retries"}
Logged(h, e) == IF Tracing THEN Append(h, e) ELSE h

\* The request a call sends: `func(*args, **kwargs)`.
Request(withUrl) == [func |-> func, url |-> withUrl]
Exchange(withUrl, kind, r) ==
    [req |-> Request(withUrl), kind |-> kind,
     status |-> r.status, retry_after |-> r.retry_after]

(***************************************************************************)
(* Exercism.request, lines 40-51.                                          *)
(***************************************************************************)
\* A requester that sleeps `delay` only.
RateLimitSleepNoMargin(d) == Seconds(d)

\* time.sleep(delay + 1), line 46.
RateLimitSleep(d) == Seconds(d + 1)

\* resp.raise_for_status(), line 49: an HTTPError for a 4xx or 5xx status.
RaisesForStatus(r) == r.status >= 400

\* Lines 49-51: raise_for_status, the pacing sleep, return.
request_Finish(r, n) ==
    /\ resp' = [status |-> r.status, retry_after |-> r.retry_after, call |-> n]
    /\ IF RaisesForStatus(r)
       THEN /\ rpc' = "raised"
            /\ rexc' = "HTTPError"
            /\ sleeps' = sleeps
       ELSE /\ rpc' = "returned"
            /\ rexc' = "none"
            /\ sleeps' = Logged(sleeps, <<"pacing", sleep>>)

\* `func` raises requests.exceptions.ConnectionError: no response.
request_ConnectionError ==
    /\ rpc' = "raised"
    /\ rexc' = "ConnectionError"
    /\ http' = Logged(http, Exchange(TRUE, "ConnectionError", NoResponse))
    /\ calls' = calls + 1
    /\ UNCHANGED <<resp, delay, sleeps>>

\* Line 42, then lines 43-46 or 49-51.
request_Call1 ==
    /\ mode = "blocking"
    /\ rpc = "call1"
    /\ \/ request_ConnectionError
       \/ \E r \in Responses :
            /\ http' = Logged(http, Exchange(TRUE, "response", r))
            /\ calls' = calls + 1
            /\ IF r.retry_after # {}
               THEN /\ delay' = CHOOSE d \in r.retry_after : TRUE
                    /\ sleeps' = Logged(sleeps, <<"rate_limit", RateLimitSleep(delay')>>)
                    /\ resp' = [status |-> r.status, retry_after |-> r.retry_after,
                                call |-> calls + 1]
                    /\ rpc' = "call2"
                    /\ UNCHANGED rexc
               ELSE /\ request_Finish(r, calls + 1)
                    /\ UNCHANGED delay
    /\ UNCHANGED <<op, mode, func, sleep, retryVars, tries, callerVars>>

\* A requester that looks for `retry-after` in the reissued response too.
request_Call2Again ==
    /\ mode = "blocking"
    /\ rpc = "call2"
    /\ \/ request_ConnectionError
       \/ \E r \in Responses :
            /\ http' = Logged(http, Exchange(TRUE, "response", r))
            /\ calls' = calls + 1
            /\ IF r.retry_after # {}
               THEN /\ delay' = CHOOSE d \in r.retry_after : TRUE
                    /\ sleeps' = Logged(sleeps, <<"rate_limit", RateLimitSleep(delay')>>)
                    /\ resp' = [status |-> r.status, retry_after |-> r.retry_after,
                                call |-> calls + 1]
                    /\ rpc' = "call2"
                    /\ UNCHANGED rexc
               ELSE /\ request_Finish(r, calls + 1)
                    /\ UNCHANGED delay
    /\ UNCHANGED <<op, mode, func, sleep, retryVars, tries, callerVars>>

\* Line 47, then lines 49-51.
request_Call2 ==
    /\ mode = "blocking"
    /\ rpc = "call2"
    /\ \/ request_ConnectionError
       \/ \E r \in Responses :
            /\ http' = Logged(http, Exchange(TRUE, "response", r))
            /\ calls' = calls + 1
            /\ request_Finish(r, calls + 1)
            /\ UNCHANGED delay
    /\ UNCHANGED <<op, mode, func, sleep, retryVars, tries, callerVars>>

(***************************************************************************)
(* AsyncExercism.get_json_with_retries, lines 298-312: the same steps,     *)
(* inlined, over aiohttp.  aiohttp raises its own exceptions               *)
(* (ClientResponseError, ClientConnectionError), and the reissue of line   *)
(* 309 passes `*args, **kwargs` without the URL: `args` is empty at every  *)
(* call site, so session.get raises TypeError before anything is sent.     *)
(***************************************************************************)
\* Lines 300-308.
async_Call1 ==
    /\ mode = "cooperative"
    /\ rpc = "call1"
    /\ \/ /\ rpc' = "raised"
          /\ rexc' = "ClientConnectionError"
          /\ http' = Logged(http, Exchange(TRUE, "ClientConnectionError", NoResponse))
          /\ calls' = calls + 1
          /\ UNCHANGED <<resp, delay, sleeps>>
       \/ \E r \in Responses :
            /\ http' = Logged(http, Exchange(TRUE, "response", r))
            /\ calls' = calls + 1
            /\ resp' = [status |-> r.status, retry_after |-> r.retry_after,
                        call |-> calls + 1]
            /\ IF r.retry_after # {}
               THEN /\ delay' = CHOOSE d \in r.retry_after : TRUE
                    /\ sleeps' = Logged(sleeps, <<"rate_limit", RateLimitSleep(delay')>>)
                    /\ rpc' = "call2"
                    /\ UNCHANGED rexc
               ELSE /\ UNCHANGED delay
                    /\ IF RaisesForStatus(r)
                       THEN /\ rpc' = "raised"
                            /\ rexc' = "ClientResponseError"
                            /\ sleeps' = sleeps
                       ELSE /\ rpc' = "returned"
                            /\ rexc' = "none"
                            /\ sleeps' = Logged(sleeps, <<"pacing", sleep>>)
    /\ UNCHANGED <<op, mode, func, sleep, retryVars, tries, callerVars>>

\* Line 309: session.get(*args, **kwargs), the URL missing.
async_Call2 ==
    /\ mode = "cooperative"
    /\ rpc = "call2"
    /\ rpc' = "raised"
    /\ rexc' = "TypeError"
    /\ UNCHANGED <<op, mode, func, sleep, delay, resp, calls, retryVars, histVars,
                   callerVars>>

(***************************************************************************)
(* tenacity.retry, lines 53-59 and 281-288.                                *)
(***************************************************************************)
\* retry_if_exception_type((requests.HTTPError, requests.exceptions.ConnectionError))
Retryable(e) == e \in {"HTTPError", "ConnectionError"}

\* A stop condition that allows one attempt too many.
ShouldStopLate(n) == n > StopAfterAttempt

\* stop_after_attempt(3)
ShouldStop(n) == n >= StopAfterAttempt

\* A wait that doubles from the floor: 15, 30, 60.
WaitExponentialFromMin(n) == Seconds(Min2(WaitMin * 2 ^ (n - 1), WaitMax))

\* A wait without the floor: 2, 4, 8.
WaitExponentialNoFloor(n) == Seconds(Min2(WaitMultiplier * 2 ^ (n - 1), WaitMax))

\* wait_exponential(multiplier=2, min=15, max=60) after attempt n:
\* multiplier * 2 ** (n - 1), clamped to [min, max].
WaitExponential(n) ==
    Seconds(Max2(WaitMin, Min2(WaitMultiplier * 2 ^ (n - 1), WaitMax)))

Try(e) == [exc |-> e, status |-> resp.status, retry_after |-> resp.retry_after]

\* Lines 62-63: request returned, the wrapper returns resp.json().
get_json_Return ==
    /\ fpc = "running"
    /\ rpc = "returned"
    /\ fpc' = "returned"
    /\ rpc' = "idle"
    /\ tries' = Logged(tries, Try("none"))
    /\ UNCHANGED <<op, mode, func, sleep, delay, resp, rexc, calls,
                   attempt, fexc, http, sleeps, callerVars>>

\* The attempt raised: tenacity reraises what it is not told to retry, raises
\* RetryError once `stop` holds, and otherwise sleeps and calls again.
get_json_Retry ==
    /\ fpc = "running"
    /\ rpc = "raised"
    /\ tries' = Logged(tries, Try(rexc))
    /\ IF ~Retryable(rexc)
       THEN /\ fpc' = "raised"
            /\ fexc' = rexc
            /\ rpc' = "idle"
            /\ UNCHANGED <<attempt, sleeps, resp>>
       ELSE IF ShouldStop(attempt)
       THEN /\ fpc' = "raised"
            /\ fexc' = "RetryError"
            /\ rpc' = "idle"
            /\ UNCHANGED <<attempt, sleeps, resp>>
       ELSE /\ sleeps' = Logged(sleeps, <<"backoff", WaitExponential(attempt)>>)
            /\ attempt' = attempt + 1
            /\ rpc' = "call1"
            /\ resp' = NoResponse
            /\ UNCHANGED <<fpc, fexc>>
    /\ UNCHANGED <<op, mode, func, sleep, delay, rexc, calls, http, callerVars>>

(***************************************************************************)
(* A caller starts get_json_with_retries: attempt 1 of the wrapper, at the *)
(* first call of request.                                                  *)
(***************************************************************************)
StartFetch ==
    /\ fpc' = "running"
    /\ attempt' = 1
    /\ fexc' = "none"
    /\ rpc' = "call1"
    /\ rexc' = "none"
    /\ resp' = NoResponse
    /\ delay' = 0
    /\ calls' = 0
    /\ func' = "get"

\* The caller has taken the wrapper's result: the locals of the call are gone.
FetchIdle ==
    /\ fpc' = "idle"
    /\ attempt' = 0
    /\ fexc' = "none"
    /\ rpc' = "idle"
    /\ rexc' = "none"
    /\ resp' = NoResponse
    /\ delay' = 0
    /\ calls' = 0
    /\ UNCHANGED <<func, sleep>>

(***************************************************************************)
(* The paginated endpoint.  Page p holds the records <<p, 1>> ..           *)
(* <<p, page_len[p]>>; a page past the last one is empty.  The server      *)
(* reads the page number from the `page` parameter, a decimal string.      *)
(***************************************************************************)
PageNumbers == 1..(MaxPages + 2)

\* str(page), lines 71 and 320.
Str(n) == ToString(n)

\* The page number the server reads from the parameter.
ParsePage(str) == CHOOSE n \in PageNumbers : ToString(n) = str

PageResults(p) ==
    IF p \in DOMAIN page_len THEN [i \in 1..page_len[p] |-> <<p, i>>] ELSE <<>>

\* The page envelope answering a request for page `str`.
Envelope(str) ==
    [results |-> PageResults(ParsePage(str)),
     meta |-> [current_page |-> ParsePage(str), total_pages |-> total_pages]]

IdleServer ==
    /\ total_pages = 0
    /\ page_len = <<>>

IdlePages ==
    /\ ppc = "idle"
    /\ page = 0
    /\ params = ""
    /\ all_data = <<>>
    /\ page_reqs = <<>>
    /\ pexc = "none"

(***************************************************************************)
(* get_all_pages, lines 65-76 (Exercism) and 314-327 (AsyncExercism).      *)
(***************************************************************************)
\* A loop that stops one page late.
LastPageStrict(meta) == meta.current_page > meta.total_pages

\* Lines 74 and 325: response["meta"]["current_page"] >= ...["total_pages"].
LastPage(meta) == meta.current_page >= meta.total_pages

\* get_all_pages is under way: called as such, or by update_exercises.
Paginating == op \in {"get_all_pages", "update_exercises"}

\* Lines 67-72: the first iteration of the loop, up to the fetch.
PagesBegin ==
    /\ Paginating
    /\ ppc = "start"
    /\ ppc' = "fetching"
    /\ page' = 1
    /\ params' = Str(1)
    /\ page_reqs' = <<params'>>
    /\ StartFetch
    /\ UNCHANGED <<op, mode, sleep, histVars, serverVars, syncVars, discoverVars, all_data, pexc,
                   watchVars, nudgeVars>>

\* Lines 73-76: the fetch returned; extend, then stop or fetch the next page.
PagesOnReturn ==
    /\ Paginating
    /\ ppc = "fetching"
    /\ fpc = "returned"
    /\ LET response == Envelope(params) IN
         /\ all_data' = all_data \o response.results
         /\ IF LastPage(response.meta)
            THEN /\ ppc' = "returned"
                 /\ FetchIdle
                 /\ UNCHANGED <<page, params, page_reqs>>
            ELSE /\ page' = page + 1
                 /\ params' = Str(page')
                 /\ page_reqs' = Append(page_reqs, params')
                 /\ StartFetch
                 /\ UNCHANGED ppc
    /\ UNCHANGED <<op, mode, sleep, histVars, serverVars, syncVars, discoverVars, pexc, watchVars, nudgeVars>>

\* A paginator that, when a fetch raises, returns what it has accumulated.
PagesOnRaiseTruncated ==
    /\ Paginating
    /\ ppc = "fetching"
    /\ fpc = "raised"
    /\ ppc' = "returned"
    /\ FetchIdle
    /\ UNCHANGED <<op, mode, sleep, histVars, serverVars, syncVars, discoverVars,
                   page, params, all_data, page_reqs, pexc, watchVars, nudgeVars>>

\* The fetch raised: get_all_pages catches nothing.
PagesOnRaise ==
    /\ Paginating
    /\ ppc = "fetching"
    /\ fpc = "raised"
    /\ ppc' = "raised"
    /\ pexc' = fexc
    /\ FetchIdle
    /\ UNCHANGED <<op, mode, sleep, histVars, serverVars, syncVars, discoverVars, page, params, all_data,
                   page_reqs, watchVars, nudgeVars>>

get_all_pages_Begin == mode = "blocking" /\ PagesBegin
get_all_pages_OnReturn == mode = "blocking" /\ PagesOnReturn
get_all_pages_OnRaise == mode = "blocking" /\ PagesOnRaise

async_get_all_pages_Begin == mode = "cooperative" /\ PagesBegin
async_get_all_pages_OnReturn == mode = "cooperative" /\ PagesOnReturn
async_get_all_pages_OnRaise == mode = "cooperative" /\ PagesOnRaise

(***************************************************************************)
(* The notifications endpoint: a response lists each notification once, as *)
(* read or unread; what it lists may change from one fetch to the next.    *)
(***************************************************************************)
Uuids == 1..MaxNotifications
Notification == [uuid : Uuids, is_read : BOOLEAN]

Distinct(seq) == \A i, j \in 1..Len(seq) : seq[i].uuid = seq[j].uuid => i = j

NotificationLists ==
    {n \in UNION {[1..k -> Notification] : k \in 0..MaxNotifications} : Distinct(n)}

UuidSet(seq) == {seq[i].uuid : i \in 1..Len(seq)}
UuidSeq(seq) == [i \in 1..Len(seq) |-> seq[i].uuid]

IdleWatch ==
    /\ wpc = "idle"
    /\ seen_notifications = {}
    /\ unread = <<>>
    /\ unseen = <<>>
    /\ primed = {}
    /\ delivered = <<>>
    /\ wexc = "none"

(***************************************************************************)
(* notification_pusher, lines 135-148.                                     *)
(***************************************************************************)
IsUnread(r) == ~r.is_read

\* A filter that lets every unread notification through.
UnseenAny(rs) == rs

\* Line 145: [r for r in unread if r["uuid"] not in seen_notifications].
Unseen(rs) ==
    LET NotSeen(r) == r.uuid \notin seen_notifications IN SelectSeq(rs, NotSeen)

\* `except requests.exceptions.HTTPError`, line 143.
Caught(e) == e = "HTTPError"

\* Line 138, up to the priming fetch.
watch_Begin ==
    /\ op = "notification_pusher"
    /\ wpc = "start"
    /\ wpc' = "priming"
    /\ StartFetch
    /\ UNCHANGED <<op, mode, sleep, histVars, serverVars, syncVars, discoverVars, pageVars, nudgeVars,
                   seen_notifications, unread, unseen, primed, delivered, wexc>>

\* Line 138: the priming fetch returned; lines 139-142: sleep, then poll.
watch_Primed ==
    /\ op = "notification_pusher"
    /\ wpc = "priming"
    /\ fpc = "returned"
    /\ \E results \in NotificationLists :
         /\ seen_notifications' = UuidSet(results)
         /\ primed' = UuidSet(results)
    /\ wpc' = "polling"
    /\ StartFetch
    /\ UNCHANGED <<op, mode, sleep, histVars, serverVars, syncVars, discoverVars, pageVars, nudgeVars,
                   unread, unseen, delivered, wexc>>

\* Line 138: the priming fetch raised; nothing catches it.
watch_PrimeRaise ==
    /\ op = "notification_pusher"
    /\ wpc = "priming"
    /\ fpc = "raised"
    /\ wpc' = "raised_priming"
    /\ wexc' = fexc
    /\ FetchIdle
    /\ UNCHANGED <<op, mode, sleep, histVars, serverVars, syncVars, discoverVars, pageVars, nudgeVars,
                   seen_notifications, unread, unseen, primed, delivered>>

\* Lines 142-148: the poll's fetch returned; then lines 139-142 again.
watch_Poll ==
    /\ op = "notification_pusher"
    /\ wpc = "polling"
    /\ fpc = "returned"
    /\ \E results \in NotificationLists :
         /\ unread' = SelectSeq(results, IsUnread)
         /\ unseen' = Unseen(unread')
         /\ delivered' = delivered \o UuidSeq(unseen')
         /\ seen_notifications' = seen_notifications \cup UuidSet(unseen')
    /\ StartFetch
    /\ UNCHANGED <<op, mode, sleep, histVars, serverVars, syncVars, discoverVars, pageVars, nudgeVars,
                   wpc, primed, wexc>>

\* Lines 141-144: the poll's fetch raised.  The handler catches
\* requests.exceptions.HTTPError alone and goes to the next cycle; any other
\* exception leaves notification_pusher.
watch_PollRaise ==
    /\ op = "notification_pusher"
    /\ wpc = "polling"
    /\ fpc = "raised"
    /\ IF Caught(fexc)
       THEN /\ StartFetch
            /\ UNCHANGED <<wpc, wexc>>
       ELSE /\ wpc' = "raised_polling"
            /\ wexc' = fexc
            /\ FetchIdle
    /\ UNCHANGED <<op, mode, sleep, histVars, serverVars, syncVars, discoverVars, pageVars, nudgeVars,
                   seen_notifications, unread, unseen, primed, delivered>>

(***************************************************************************)
(* Timestamps.  The server sends "%Y-%m-%dT%H:%M:%SZ" strings: a timestamp *)
(* is <<day, tick of the day>>, and strings compare field by field from    *)
(* the left.  datetime.strptime turns one into an instant, counted in      *)
(* ticks.                                                                  *)
(***************************************************************************)
\* datetime.datetime.now(), line 365.
Now == (FinishAgeDays + 2) * TicksPerDay + 1

\* The string the server sends for instant t.
Stamp(t) == <<t \div TicksPerDay, t % TicksPerDay>>

\* a <= b on the strings.
StrLeq(a, b) == a[1] < b[1] \/ (a[1] = b[1] /\ a[2] <= b[2])

\* datetime.datetime.strptime(s, "%Y-%m-%dT%H:%M:%SZ"), line 381.
Strptime(a) == a[1] * TicksPerDay + a[2]

\* timedelta.days: whole days, rounded down.
TimedeltaDays(d) == d \div TicksPerDay

\* The ages of the posts the server holds: one tick short of 300 days, 300
\* days, one tick more, and 301 days.
PostAges ==
    {FinishAgeDays * TicksPerDay - 1, FinishAgeDays * TicksPerDay,
     FinishAgeDays * TicksPerDay + 1, (FinishAgeDays + 1) * TicksPerDay}

Stamps == {Stamp(Now - a) : a \in PostAges}

(***************************************************************************)
(* The posts of a discussion: how many posts the server holds of each      *)
(* (updated_at, by_student).  The order of `items` does not enter nudge,   *)
(* which takes min, max and len over them.                                 *)
(***************************************************************************)
PostKinds == [updated_at : Stamps, by_student : BOOLEAN]

RECURSIVE PostsOver(_, _)
PostsOver(kinds, n) ==
    IF kinds = {}
    THEN {<<>>}
    ELSE LET k == CHOOSE x \in kinds : TRUE IN
         UNION {{(k :> c) @@ b : b \in PostsOver(kinds \ {k}, n - c)} : c \in 0..n}

PostLists == PostsOver(PostKinds, MaxPosts)

\* The number of posts of `items` whose kind is in `kinds`.
CountPosts(items, kinds) ==
    Cardinality({<<k, i>> \in kinds \X (1..MaxPosts) : i <= items[k]})

MinStr(S) == CHOOSE a \in S : \A b \in S : StrLeq(a, b)
MaxStr(S) == CHOOSE a \in S : \A b \in S : StrLeq(b, a)

IdleNudge ==
    /\ npc = "idle"
    /\ ids = <<>>
    /\ idx = 0
    /\ posts = <<>>
    /\ to_finish = <<>>
    /\ to_nudge = <<>>
    /\ sent = <<>>
    /\ nexc = "none"

(***************************************************************************)
(* nudge(), lines 362-389.                                                 *)
(***************************************************************************)
\* p["updated_at"] for p in posts if not p['by_student'], line 374.
MentorStamps(items) ==
    {k.updated_at : k \in {x \in PostKinds : items[x] > 0 /\ ~x.by_student}}

\* p["updated_at"] for p in posts if p['by_student'], line 377.
StudentStamps(items) ==
    {k.updated_at : k \in {x \in PostKinds : items[x] > 0 /\ x.by_student}}

\* Lines 373-375; min() of no value raises ValueError.
first_mentor(items) == MinStr(MentorStamps(items))

\* Lines 376-378.
last_student(items) ==
    IF StudentStamps(items) = {} THEN first_mentor(items)
    ELSE MaxStr(StudentStamps(items))

\* Line 379.
updated(items) == MaxStr({first_mentor(items), last_student(items)})

\* Line 380.
posts_since_updated(items) ==
    CountPosts(items, {k \in PostKinds : StrLeq(updated(items), k.updated_at)})

\* Line 381.
age_days(items) == TimedeltaDays(Now - Strptime(updated(items)))

\* A test that finishes from 300 whole days on.
IsFinishFrom300(items) ==
    age_days(items) >= FinishAgeDays /\ posts_since_updated(items) > FinishPosts

\* Line 382.
IsFinish(items) ==
    age_days(items) > FinishAgeDays /\ posts_since_updated(items) > FinishPosts

\* A driver that never nudges.
MutationsFinishOnly(fin, nud) == [i \in 1..Len(fin) |-> <<"finish", fin[i]>>]

\* A driver that nudges before it finishes.
MutationsNudgeFirst(fin, nud) ==
    [i \in 1..Len(nud) |-> <<"nudge", nud[i]>>] \o
    [i \in 1..Len(fin) |-> <<"finish", fin[i]>>]

\* The mutation requests finish(to_finish) and nudge(to_nudge) make, in order.
Mutations(fin, nud) ==
    [i \in 1..Len(fin) |-> <<"finish", fin[i]>>] \o
    [i \in 1..Len(nud) |-> <<"nudge", nud[i]>>]

\* finish: request(self.session.patch, ..., sleep=0.2), lines 223-227;
\* nudge: self.post(...), line 241, with post's default sleep.
StartRequest(m) ==
    /\ rpc' = "call1"
    /\ func' = IF m[1] = "finish" THEN "patch" ELSE "post"
    /\ sleep' = IF m[1] = "finish" THEN SleepGetJson ELSE SleepDefault
    /\ rexc' = "none"
    /\ resp' = NoResponse
    /\ delay' = 0
    /\ calls' = 0
    /\ UNCHANGED retryVars

\* Lines 369-372, or lines 386-389 once every candidate is classified:
\* the i-th candidate's posts are fetched, or the first mutation is sent.
Proceed(i, fin, nud) ==
    IF i <= Len(ids)
    THEN /\ idx' = i
         /\ npc' = "posts"
         /\ StartFetch
         /\ sleep' = SleepGetJson
         /\ UNCHANGED sent
    ELSE IF Mutations(fin, nud) # <<>>
    THEN /\ idx' = 1
         /\ npc' = "mutating"
         /\ StartRequest(Mutations(fin, nud)[1])
         /\ sent' = Append(sent, Mutations(fin, nud)[1])
    ELSE /\ idx' = 0
         /\ npc' = "done"
         /\ UNCHANGED <<reqVars, retryVars, sent>>

\* Lines 364-372.
nudge_Begin ==
    /\ op = "nudge"
    /\ npc = "start"
    /\ Proceed(1, to_finish, to_nudge)
    /\ UNCHANGED <<op, mode, histVars, serverVars, syncVars, discoverVars, pageVars, watchVars,
                   ids, posts, to_finish, to_nudge, nexc>>

\* Lines 370-385: the posts of ids[idx] arrived; classify the discussion.
nudge_OnPosts ==
    /\ op = "nudge"
    /\ npc = "posts"
    /\ fpc = "returned"
    /\ \E items \in PostLists :
         /\ posts' = items
         /\ IF MentorStamps(items) = {}
            THEN /\ npc' = "raised"
                 /\ nexc' = "ValueError"
                 /\ UNCHANGED <<to_finish, to_nudge>>
            ELSE /\ npc' = "decided"
                 /\ nexc' = "none"
                 /\ IF IsFinish(items)
                    THEN /\ to_finish' = Append(to_finish, ids[idx])
                         /\ UNCHANGED to_nudge
                    ELSE /\ to_nudge' = Append(to_nudge, ids[idx])
                         /\ UNCHANGED to_finish
    /\ FetchIdle
    /\ UNCHANGED <<op, mode, sleep, histVars, serverVars, syncVars, discoverVars, pageVars, watchVars,
                   ids, idx, sent>>

\* Line 370: the fetch raised; nudge catches nothing.
nudge_PostsRaise ==
    /\ op = "nudge"
    /\ npc = "posts"
    /\ fpc = "raised"
    /\ npc' = "raised"
    /\ nexc' = fexc
    /\ FetchIdle
    /\ UNCHANGED <<op, mode, sleep, histVars, serverVars, syncVars, discoverVars, pageVars, watchVars,
                   ids, idx, posts, to_finish, to_nudge, sent>>

\* The next iteration of line 369, or lines 386-389.
nudge_Next ==
    /\ op = "nudge"
    /\ npc = "decided"
    /\ posts' = <<>>
    /\ Proceed(idx + 1, to_finish, to_nudge)
    /\ UNCHANGED <<op, mode, histVars, serverVars, syncVars, discoverVars, pageVars, watchVars,
                   ids, to_finish, to_nudge, nexc>>

\* Lines 222-227 and 240-241: the request returned; the next one is sent.
nudge_Mutated ==
    /\ op = "nudge"
    /\ npc = "mutating"
    /\ rpc = "returned"
    /\ IF idx < Len(Mutations(to_finish, to_nudge))
       THEN /\ idx' = idx + 1
            /\ StartRequest(Mutations(to_finish, to_nudge)[idx + 1])
            /\ sent' = Append(sent, Mutations(to_finish, to_nudge)[idx + 1])
            /\ UNCHANGED npc
       ELSE /\ npc' = "done"
            /\ rpc' = "idle"
            /\ UNCHANGED <<idx, sent, func, sleep, delay, resp, rexc, calls, retryVars>>
    /\ UNCHANGED <<op, mode, histVars, serverVars, syncVars, discoverVars, pageVars, watchVars,
                   ids, posts, to_finish, to_nudge, nexc>>

\* Lines 223 and 241: request raised; finish, nudge and the driver catch nothing.
nudge_MutateRaise ==
    /\ op = "nudge"
    /\ npc = "mutating"
    /\ rpc = "raised"
    /\ npc' = "raised"
    /\ nexc' = rexc
    /\ rpc' = "idle"
    /\ UNCHANGED <<op, mode, histVars, serverVars, syncVars, discoverVars, pageVars, watchVars,
                   ids, idx, posts, to_finish, to_nudge, sent,
                   func, sleep, delay, resp, rexc, calls, retryVars>>

(***************************************************************************)
(* The listings old_mentor_discussions and failing_solutions traverse.     *)
(* The server lists each record once; a record's uuid is its position in   *)
(* the listing.  What a page holds, and the posts of a discussion, are     *)
(* what the server answers when asked.                                     *)
(***************************************************************************)
\* exercism.old_mentor_discussions("awaiting_student", 30), line 366: `age`.
DiscoverAgeDays == 30

\* cutoff = datetime.datetime.now() - delta, lines 194-195.
Cutoff == Now - DiscoverAgeDays * TicksPerDay

\* The updated_at of a discussion or of a post: one tick older than the
\* cutoff, the cutoff, one tick more recent.
CutoffStamps == {Stamp(Cutoff - 1), Stamp(Cutoff), Stamp(Cutoff + 1)}

TestStatuses == {"passed", "not_queued", "failed"}
Tracks == {"python", "go"}

\* The sequences of k records with uuids first + 1 .. first + k.
DiscussionPages(first, k) ==
    {[i \in 1..k |-> [uuid |-> first + i, updated_at |-> f[i]]] :
        f \in [1..k -> CutoffStamps]}

SolutionPages(first, k) ==
    {[i \in 1..k |-> [uuid |-> first + i,
                      published_iteration_head_tests_status |-> f[i][1],
                      track |-> f[i][2]]] :
        f \in [1..k -> TestStatuses \X Tracks]}

\* The pages the server may answer with once `first` records are listed.
ListingPages(first) ==
    UNION {IF op = "failing_solutions"
           THEN SolutionPages(first, k) ELSE DiscussionPages(first, k) :
           k \in 0..Min2(MaxPerPage, MaxCandidates - first)}

\* The `items` of a posts response, as the set of their updated_at.
PostStampSets == SUBSET CutoffStamps

IdleDiscover ==
    /\ dpc = "idle"
    /\ track = ""
    /\ page_count = 0
    /\ dpage = 0
    /\ page_results = <<>>
    /\ didx = 0
    /\ uuids = <<>>
    /\ solutions = <<>>
    /\ listed = 0
    /\ list_reqs = <<>>
    /\ examined = <<>>
    /\ dexc = "none"

(***************************************************************************)
(* old_mentor_discussions, lines 184-218, and failing_solutions, lines     *)
(* 243-266.                                                                *)
(***************************************************************************)
Discovering == op \in {"old_mentor_discussions", "failing_solutions", "nudge"}

\* A staleness test that also drops what is exactly as old as the cutoff.
RecentFromCutoff(stamp) == Strptime(stamp) >= Cutoff

\* Lines 202-203 and 210-214: strptime(...) > cutoff.
Recent(stamp) == Strptime(stamp) > Cutoff

\* Lines 210-213: the updated_at whose datetime is max(post_dates).
MostRecent(stamps) ==
    CHOOSE s \in stamps : \A t \in stamps : Strptime(t) <= Strptime(s)

\* Lines 255-258: the solution is not appended.
Skipped(solution) ==
    \/ track # "" /\ solution.track # track
    \/ solution.published_iteration_head_tests_status \in {"passed", "not_queued"}

\* Lines 254-265 over a page.
Failing(rs) == LET Kept(s) == ~Skipped(s) IN SelectSeq(rs, Kept)

\* What was seen of a discussion: its updated_at, and the most recent
\* updated_at of its posts when they were fetched.
Seen(d, post_stamps) ==
    [uuid |-> d.uuid, updated_at |-> d.updated_at, most_recent_post |-> post_stamps]

\* The first discussion of rs, from index i on, that line 203 does not skip;
\* Len(rs) + 1 when it skips them all.
NextStale(rs, i) ==
    LET S == {j \in i..Len(rs) : ~Recent(rs[j].updated_at)} IN
    IF S = {} THEN Len(rs) + 1 ELSE CHOOSE j \in S : \A k \in S : j <= k

\* Lines 197-200 (250-253): the request for page p, or line 218 (266) when
\* the range is exhausted.
ListPage(p, count) ==
    /\ page_results' = <<>>
    /\ didx' = 0
    /\ IF p <= count
       THEN /\ dpage' = p
            /\ list_reqs' = Append(list_reqs, Str(p))
            /\ dpc' = "listing"
            /\ StartFetch
       ELSE /\ dpc' = "returned"
            /\ FetchIdle
            /\ UNCHANGED <<dpage, list_reqs>>

\* Lines 201-209: the loop over the page rs from index i, up to the fetch of
\* the posts of the first discussion that line 203 does not skip.
ScanPage(rs, i, log) ==
    LET j == NextStale(rs, i) IN
    /\ examined' = log \o [k \in 1..(j - i) |-> Seen(rs[i + k - 1], {})]
    /\ IF j <= Len(rs)
       THEN /\ page_results' = rs
            /\ didx' = j
            /\ dpc' = "posts"
            /\ StartFetch
            /\ UNCHANGED <<dpage, list_reqs>>
       ELSE ListPage(dpage + 1, page_count)

\* Lines 190-191 (245-246): the request that reads total_pages.
discover_Begin ==
    /\ Discovering
    /\ dpc = "start"
    /\ dpc' = "counting"
    /\ list_reqs' = <<"">>
    /\ StartFetch
    /\ UNCHANGED <<op, mode, sleep, histVars, serverVars, syncVars, pageVars, watchVars,
                   nudgeVars, track, page_count, dpage, page_results, didx, uuids,
                   solutions, listed, examined, dexc>>

\* Lines 192-200 (247-253): page_count is read; the loop starts.
discover_OnCount ==
    /\ Discovering
    /\ dpc = "counting"
    /\ fpc = "returned"
    /\ \E n \in 0..MaxPages :
         /\ page_count' = n
         /\ ListPage(1, n)
    /\ UNCHANGED <<op, mode, sleep, histVars, serverVars, syncVars, pageVars, watchVars,
                   nudgeVars, track, uuids, solutions, listed, examined, dexc>>

\* Lines 200-209 (253-265): a page of the listing arrived.
discover_OnPage ==
    /\ Discovering
    /\ dpc = "listing"
    /\ fpc = "returned"
    /\ \E rs \in ListingPages(listed) :
         /\ listed' = listed + Len(rs)
         /\ IF op = "failing_solutions"
            THEN /\ solutions' = solutions \o Failing(rs)
                 /\ ListPage(dpage + 1, page_count)
                 /\ UNCHANGED examined
            ELSE /\ ScanPage(rs, 1, examined)
                 /\ UNCHANGED solutions
    /\ UNCHANGED <<op, mode, sleep, histVars, serverVars, syncVars, pageVars, watchVars,
                   nudgeVars, track, page_count, uuids, dexc>>

\* Lines 207-217: the posts of page_results[didx] arrived; max() of no value
\* raises ValueError.
discover_OnPosts ==
    /\ Discovering
    /\ dpc = "posts"
    /\ fpc = "returned"
    /\ \E stamps \in PostStampSets :
         IF stamps = {}
         THEN /\ dpc' = "raised"
              /\ dexc' = "ValueError"
              /\ FetchIdle
              /\ UNCHANGED <<dpage, page_results, didx, uuids, list_reqs, examined>>
         ELSE /\ uuids' = IF Recent(MostRecent(stamps)) THEN uuids
                          ELSE Append(uuids, page_results[didx].uuid)
              /\ ScanPage(page_results, didx + 1,
                          Append(examined, Seen(page_results[didx], {MostRecent(stamps)})))
              /\ UNCHANGED dexc
    /\ UNCHANGED <<op, mode, sleep, histVars, serverVars, syncVars, pageVars, watchVars,
                   nudgeVars, track, page_count, solutions, listed>>

\* Lines 191, 200, 207 (246, 253): the fetch raised; nothing catches it.
discover_Raise ==
    /\ Discovering
    /\ dpc \in {"counting", "listing", "posts"}
    /\ fpc = "raised"
    /\ dpc' = "raised"
    /\ dexc' = fexc
    /\ FetchIdle
    /\ UNCHANGED <<op, mode, sleep, histVars, serverVars, syncVars, pageVars, watchVars,
                   nudgeVars, track, page_count, dpage, page_results, didx, uuids,
                   solutions, listed, list_reqs, examined>>

(***************************************************************************)
(* nudge(), lines 364-366: the candidates come from                        *)
(* old_mentor_discussions("awaiting_student", 30).                         *)
(***************************************************************************)
\* Lines 364-366: old_mentor_discussions is called.
nudge_Discover ==
    /\ op = "nudge"
    /\ npc = "begin"
    /\ npc' = "discovering"
    /\ dpc' = "start"
    /\ UNCHANGED <<op, mode, reqVars, retryVars, histVars, serverVars, syncVars, pageVars,
                   watchVars, ids, idx, posts, to_finish, to_nudge, sent, nexc,
                   track, page_count, dpage, page_results, didx, uuids, solutions,
                   listed, list_reqs, examined, dexc>>

\* The locals of old_mentor_discussions are gone once it is left.
DiscoverLeft ==
    /\ dpc' = "idle"
    /\ page_count' = 0
    /\ dpage' = 0
    /\ page_results' = <<>>
    /\ didx' = 0
    /\ uuids' = <<>>
    /\ listed' = 0
    /\ list_reqs' = <<>>
    /\ examined' = <<>>
    /\ dexc' = "none"
    /\ UNCHANGED <<track, solutions>>

\* Line 366: old_mentor_discussions returned `ids`.
nudge_Discovered ==
    /\ op = "nudge"
    /\ npc = "discovering"
    /\ dpc = "returned"
    /\ ids' = uuids
    /\ npc' = "start"
    /\ DiscoverLeft
    /\ UNCHANGED <<op, mode, reqVars, retryVars, histVars, serverVars, syncVars, pageVars,
                   watchVars, idx, posts, to_finish, to_nudge, sent, nexc>>

\* Line 366: old_mentor_discussions raised; nudge catches nothing.
nudge_DiscoverRaise ==
    /\ op = "nudge"
    /\ npc = "discovering"
    /\ dpc = "raised"
    /\ npc' = "raised"
    /\ nexc' = dexc
    /\ DiscoverLeft
    /\ UNCHANGED <<op, mode, reqVars, retryVars, histVars, serverVars, syncVars, pageVars,
                   watchVars, ids, idx, posts, to_finish, to_nudge, sent>>

(***************************************************************************)
(* The solutions endpoint as update_exercises sees it.  The server fills   *)
(* every page but the last; a solution is the record <<page, index>>, and  *)
(* out_of_date holds the solutions whose is_out_of_date is true.  A sync   *)
(* answered by a success status clears the flag of its solution, and       *)
(* nothing else changes.                                                   *)
(***************************************************************************)
\* total_pages of a listing of n records.
PagesOf(n) == (n + MaxPerPage - 1) \div MaxPerPage

\* The number of records of each page of a listing of n records.
FullPages(n) ==
    [p \in 1..PagesOf(n) |->
        IF p < PagesOf(n) THEN MaxPerPage ELSE n - (PagesOf(n) - 1) * MaxPerPage]

Range(seq) == {seq[i] : i \in 1..Len(seq)}

IdleSync ==
    /\ spc = "idle"
    /\ run = 0
    /\ spos = 0
    /\ updates = <<>>
    /\ flagged = {}
    /\ sexc = "none"
    /\ out_of_date = {}
    /\ patched = <<>>
    /\ ended = ""

(***************************************************************************)
(* update_exercises, lines 110-121.                                        *)
(***************************************************************************)
\* A test that syncs the solutions that are up to date.
IsOutOfDateInverted(solution, flags) == solution \notin flags

\* Line 115: solution["is_out_of_date"].
IsOutOfDate(solution, flags) == solution \in flags

\* The first solution, from index i on, that line 115 does not skip;
\* Len(list) + 1 when it skips them all.
NextOutOfDate(list, i, flags) ==
    LET S == {j \in i..Len(list) : IsOutOfDate(list[j], flags)} IN
    IF S = {} THEN Len(list) + 1 ELSE CHOOSE j \in S : \A k \in S : j <= k

\* self.patch(...), line 118: request(self.session.patch, ..., sleep=0.5).
StartPatch ==
    /\ rpc' = "call1"
    /\ func' = "patch"
    /\ sleep' = SleepDefault
    /\ rexc' = "none"
    /\ resp' = NoResponse
    /\ delay' = 0
    /\ calls' = 0
    /\ UNCHANGED retryVars

\* Lines 114-118, or line 121: the loop from index i, up to the next sync.
SyncFrom(i, flags) ==
    LET j == NextOutOfDate(all_data, i, flags) IN
    IF j <= Len(all_data)
    THEN /\ spos' = j
         /\ spc' = "syncing"
         /\ patched' = Append(patched, <<run, all_data[j]>>)
         /\ StartPatch
    ELSE /\ spos' = 0
         /\ spc' = "returned"
         /\ rpc' = "idle"
         /\ UNCHANGED <<patched, func, sleep, delay, resp, rexc, calls, retryVars>>

\* Lines 112-113: get_all_pages(endpoint="solutions") is called.
sync_Begin ==
    /\ op = "update_exercises"
    /\ spc = "start"
    /\ spc' = "paging"
    /\ ppc' = "start"
    /\ sleep' = SleepGetJson
    /\ UNCHANGED <<op, mode, func, rpc, delay, resp, rexc, calls, retryVars,
                   histVars, serverVars, discoverVars, watchVars, nudgeVars,
                   page, params, all_data, page_reqs, pexc,
                   run, spos, updates, flagged, sexc, out_of_date, patched, ended>>

\* Lines 113-118: get_all_pages returned `solutions`, with the flags the
\* server held during the traversal.
sync_OnSolutions ==
    /\ op = "update_exercises"
    /\ spc = "paging"
    /\ ppc = "returned"
    /\ flagged' = Range(all_data) \cap out_of_date
    /\ SyncFrom(1, flagged')
    /\ UNCHANGED <<op, mode, histVars, serverVars, discoverVars, pageVars,
                   watchVars, nudgeVars, run, updates, sexc, out_of_date, ended>>

\* Line 113: get_all_pages raised; update_exercises catches nothing.
sync_PagesRaise ==
    /\ op = "update_exercises"
    /\ spc = "paging"
    /\ ppc = "raised"
    /\ spc' = "raised"
    /\ sexc' = pexc
    /\ UNCHANGED <<op, mode, reqVars, retryVars, histVars, serverVars,
                   discoverVars, pageVars, watchVars, nudgeVars,
                   run, spos, updates, flagged, out_of_date, patched, ended>>

\* Lines 118-119: the sync returned, so the server answered it by a success
\* status; then the loop goes on.
sync_OnPatched ==
    /\ op = "update_exercises"
    /\ spc = "syncing"
    /\ rpc = "returned"
    /\ out_of_date' = out_of_date \ {all_data[spos]}
    /\ updates' = Append(updates, all_data[spos])
    /\ SyncFrom(spos + 1, flagged)
    /\ UNCHANGED <<op, mode, histVars, serverVars, discoverVars, pageVars,
                   watchVars, nudgeVars, run, flagged, sexc, ended>>

\* Line 118: patch raised; update_exercises catches nothing.  When the sync
\* was reissued, the first of its two answers may have been a success.
sync_PatchRaise ==
    /\ op = "update_exercises"
    /\ spc = "syncing"
    /\ rpc = "raised"
    /\ spc' = "raised"
    /\ sexc' = rexc
    /\ rpc' = "idle"
    /\ \/ UNCHANGED out_of_date
       \/ /\ calls = 2
          /\ out_of_date' = out_of_date \ {all_data[spos]}
    /\ UNCHANGED <<op, mode, func, sleep, delay, resp, rexc, calls, retryVars,
                   histVars, serverVars, discoverVars, pageVars, watchVars,
                   nudgeVars, run, spos, updates, flagged, patched, ended>>

\* update_exercises is called again, right after the first call ended.
sync_Again ==
    /\ op = "update_exercises"
    /\ spc \in {"returned", "raised"}
    /\ run = 1
    /\ run' = 2
    /\ ended' = spc
    /\ spc' = "start"
    /\ spos' = 0
    /\ updates' = <<>>
    /\ flagged' = {}
    /\ sexc' = "none"
    /\ ppc' = "idle"
    /\ page' = 0
    /\ params' = ""
    /\ all_data' = <<>>
    /\ page_reqs' = <<>>
    /\ pexc' = "none"
    /\ UNCHANGED <<op, mode, reqVars, retryVars, histVars, serverVars,
                   discoverVars, watchVars, nudgeVars, out_of_date, patched>>

(***************************************************************************)
(* One call of request, as post, patch and finish make it.                 *)
(***************************************************************************)
InitRequest ==
    /\ op = "request"
    /\ mode = "blocking"
    /\ func \in {"get", "post", "patch"}
    /\ sleep \in {SleepDefault, SleepGetJson}
    /\ rpc = "call1"
    /\ delay = 0
    /\ resp = NoResponse
    /\ rexc = "none"
    /\ calls = 0
    /\ fpc = "idle"
    /\ attempt = 0
    /\ fexc = "none"
    /\ http = <<>>
    /\ sleeps = <<>>
    /\ tries = <<>>
    /\ IdleServer
    /\ IdlePages
    /\ IdleWatch
    /\ IdleNudge
    /\ IdleDiscover
    /\ IdleSync

NextRequest == request_Call1 \/ request_Call2

SpecRequest == InitRequest /\ [][NextRequest]_vars

(***************************************************************************)
(* One call of get_json_with_retries.                                      *)
(***************************************************************************)
InitFetch ==
    /\ op = "get_json_with_retries"
    /\ mode \in Modes
    /\ func = "get"
    /\ sleep \in {SleepDefault, SleepGetJson}
    /\ rpc = "call1"
    /\ delay = 0
    /\ resp = NoResponse
    /\ rexc = "none"
    /\ calls = 0
    /\ fpc = "running"
    /\ attempt = 1
    /\ fexc = "none"
    /\ http = <<>>
    /\ sleeps = <<>>
    /\ tries = <<>>
    /\ IdleServer
    /\ IdlePages
    /\ IdleWatch
    /\ IdleNudge
    /\ IdleDiscover
    /\ IdleSync

NextFetch ==
    \/ request_Call1
    \/ request_Call2
    \/ async_Call1
    \/ async_Call2
    \/ get_json_Return
    \/ get_json_Retry

SpecFetch == InitFetch /\ [][NextFetch]_vars

(***************************************************************************)
(* One call of get_all_pages, on an endpoint of 0..MaxPages pages.         *)
(***************************************************************************)
InitPages ==
    /\ op = "get_all_pages"
    /\ mode \in Modes
    /\ func = "get"
    /\ sleep \in {SleepDefault, SleepGetJson}
    /\ rpc = "idle"
    /\ delay = 0
    /\ resp = NoResponse
    /\ rexc = "none"
    /\ calls = 0
    /\ fpc = "idle"
    /\ attempt = 0
    /\ fexc = "none"
    /\ http = <<>>
    /\ sleeps = <<>>
    /\ tries = <<>>
    /\ total_pages \in 0..MaxPages
    /\ page_len \in [1..total_pages -> 0..MaxPerPage]
    /\ ppc = "start"
    /\ page = 0
    /\ params = ""
    /\ all_data = <<>>
    /\ page_reqs = <<>>
    /\ pexc = "none"
    /\ IdleWatch
    /\ IdleNudge
    /\ IdleDiscover
    /\ IdleSync

NextPages ==
    \/ get_all_pages_Begin
    \/ get_all_pages_OnReturn
    \/ get_all_pages_OnRaise
    \/ async_get_all_pages_Begin
    \/ async_get_all_pages_OnReturn
    \/ async_get_all_pages_OnRaise
    \/ request_Call1
    \/ request_Call2
    \/ async_Call1
    \/ async_Call2
    \/ get_json_Return
    \/ get_json_Retry

SpecPages == InitPages /\ [][NextPages]_vars

(***************************************************************************)
(* One watch session: notification_pusher(callback).                       *)
(***************************************************************************)
InitWatch ==
    /\ op = "notification_pusher"
    /\ mode = "blocking"
    /\ func = "get"
    /\ sleep = SleepGetJson
    /\ rpc = "idle"
    /\ delay = 0
    /\ resp = NoResponse
    /\ rexc = "none"
    /\ calls = 0
    /\ fpc = "idle"
    /\ attempt = 0
    /\ fexc = "none"
    /\ http = <<>>
    /\ sleeps = <<>>
    /\ tries = <<>>
    /\ IdleServer
    /\ IdlePages
    /\ wpc = "start"
    /\ seen_notifications = {}
    /\ unread = <<>>
    /\ unseen = <<>>
    /\ primed = {}
    /\ delivered = <<>>
    /\ wexc = "none"
    /\ IdleNudge
    /\ IdleDiscover
    /\ IdleSync

NextWatch ==
    \/ watch_Begin
    \/ watch_Primed
    \/ watch_PrimeRaise
    \/ watch_Poll
    \/ watch_PollRaise
    \/ request_Call1
    \/ request_Call2
    \/ get_json_Return
    \/ get_json_Retry

SpecWatch == InitWatch /\ [][NextWatch]_vars

(***************************************************************************)
(* One run of nudge() from the candidates old_mentor_discussions returned. *)
(***************************************************************************)
InitNudge ==
    /\ op = "nudge"
    /\ mode = "blocking"
    /\ func = "get"
    /\ sleep = SleepGetJson
    /\ rpc = "idle"
    /\ delay = 0
    /\ resp = NoResponse
    /\ rexc = "none"
    /\ calls = 0
    /\ fpc = "idle"
    /\ attempt = 0
    /\ fexc = "none"
    /\ http = <<>>
    /\ sleeps = <<>>
    /\ tries = <<>>
    /\ IdleServer
    /\ IdlePages
    /\ IdleWatch
    /\ npc = "start"
    /\ ids \in {[i \in 1..n |-> i] : n \in 0..MaxCandidates}
    /\ idx = 0
    /\ posts = <<>>
    /\ to_finish = <<>>
    /\ to_nudge = <<>>
    /\ sent = <<>>
    /\ nexc = "none"
    /\ IdleDiscover
    /\ IdleSync

NextNudge ==
    \/ nudge_Begin
    \/ nudge_OnPosts
    \/ nudge_PostsRaise
    \/ nudge_Next
    \/ nudge_Mutated
    \/ nudge_MutateRaise
    \/ request_Call1
    \/ request_Call2
    \/ get_json_Return
    \/ get_json_Retry

SpecNudge == InitNudge /\ [][NextNudge]_vars

(***************************************************************************)
(* One call of old_mentor_discussions("awaiting_student", 30), or of       *)
(* failing_solutions(track).                                               *)
(***************************************************************************)
InitDiscover ==
    /\ op \in {"old_mentor_discussions", "failing_solutions"}
    /\ mode = "blocking"
    /\ func = "get"
    /\ sleep = SleepGetJson
    /\ rpc = "idle"
    /\ delay = 0
    /\ resp = NoResponse
    /\ rexc = "none"
    /\ calls = 0
    /\ fpc = "idle"
    /\ attempt = 0
    /\ fexc = "none"
    /\ http = <<>>
    /\ sleeps = <<>>
    /\ tries = <<>>
    /\ IdleServer
    /\ IdlePages
    /\ IdleWatch
    /\ IdleNudge
    /\ dpc = "start"
    /\ track \in IF op = "failing_solutions" THEN {""} \cup Tracks ELSE {""}
    /\ page_count = 0
    /\ dpage = 0
    /\ page_results = <<>>
    /\ didx = 0
    /\ uuids = <<>>
    /\ solutions = <<>>
    /\ listed = 0
    /\ list_reqs = <<>>
    /\ examined = <<>>
    /\ dexc = "none"
    /\ IdleSync

NextDiscover ==
    \/ discover_Begin
    \/ discover_OnCount
    \/ discover_OnPage
    \/ discover_OnPosts
    \/ discover_Raise
    \/ request_Call1
    \/ request_Call2
    \/ get_json_Return
    \/ get_json_Retry

SpecDiscover == InitDiscover /\ [][NextDiscover]_vars

(***************************************************************************)
(* update_exercises called twice in succession, on a listing of up to      *)
(* MaxPages full pages.                                                    *)
(***************************************************************************)
InitSync ==
    /\ op = "update_exercises"
    /\ mode = "blocking"
    /\ func = "get"
    /\ sleep = SleepGetJson
    /\ rpc = "idle"
    /\ delay = 0
    /\ resp = NoResponse
    /\ rexc = "none"
    /\ calls = 0
    /\ fpc = "idle"
    /\ attempt = 0
    /\ fexc = "none"
    /\ http = <<>>
    /\ sleeps = <<>>
    /\ tries = <<>>
    /\ \E n \in 0..(MaxPages * MaxPerPage) :
         /\ total_pages = PagesOf(n)
         /\ page_len = FullPages(n)
    /\ IdlePages
    /\ IdleWatch
    /\ IdleNudge
    /\ IdleDiscover
    /\ spc = "start"
    /\ run = 1
    /\ spos = 0
    /\ updates = <<>>
    /\ flagged = {}
    /\ sexc = "none"
    /\ out_of_date \in SUBSET {<<p, i>> : p \in 1..MaxPages, i \in 1..MaxPerPage}
    /\ \A r \in out_of_date : r[1] \in DOMAIN page_len /\ r[2] <= page_len[r[1]]
    /\ patched = <<>>
    /\ ended = ""

NextSync ==
    \/ sync_Begin
    \/ sync_OnSolutions
    \/ sync_PagesRaise
    \/ sync_OnPatched
    \/ sync_PatchRaise
    \/ sync_Again
    \/ get_all_pages_Begin
    \/ get_all_pages_OnReturn
    \/ get_all_pages_OnRaise
    \/ request_Call1
    \/ request_Call2
    \/ get_json_Return
    \/ get_json_Retry

SpecSync == InitSync /\ [][NextSync]_vars

(***************************************************************************)
(* One run of nudge(), from its first line.                                *)
(***************************************************************************)
InitDriver ==
    /\ op = "nudge"
    /\ mode = "blocking"
    /\ func = "get"
    /\ sleep = SleepGetJson
    /\ rpc = "idle"
    /\ delay = 0
    /\ resp = NoResponse
    /\ rexc = "none"
    /\ calls = 0
    /\ fpc = "idle"
    /\ attempt = 0
    /\ fexc = "none"
    /\ http = <<>>
    /\ sleeps = <<>>
    /\ tries = <<>>
    /\ IdleServer
    /\ IdlePages
    /\ IdleWatch
    /\ npc = "begin"
    /\ ids = <<>>
    /\ idx = 0
    /\ posts = <<>>
    /\ to_finish = <<>>
    /\ to_nudge = <<>>
    /\ sent = <<>>
    /\ nexc = "none"
    /\ IdleDiscover
    /\ IdleSync

NextDriver ==
    \/ nudge_Discover
    \/ nudge_Discovered
    \/ nudge_DiscoverRaise
    \/ discover_Begin
    \/ discover_OnCount
    \/ discover_OnPage
    \/ discover_OnPosts
    \/ discover_Raise
    \/ nudge_Begin
    \/ nudge_OnPosts
    \/ nudge_PostsRaise
    \/ nudge_Next
    \/ nudge_Mutated
    \/ nudge_MutateRaise
    \/ request_Call1
    \/ request_Call2
    \/ get_json_Return
    \/ get_json_Retry

SpecDriver == InitDriver /\ [][NextDriver]_vars

(***************************************************************************)
(* One of the one-shot operations built on page fetches: get_all_pages,    *)
(* update_exercises, old_mentor_discussions, failing_solutions.            *)
(***************************************************************************)
InitOneShot == InitPages \/ InitSync \/ InitDiscover

NextOneShot == NextPages \/ NextSync \/ NextDiscover

SpecOneShot == InitOneShot /\ [][NextOneShot]_vars

(***************************************************************************)
(* Properties of request (SpecRequest).                                    *)
(***************************************************************************)
RequestDone == rpc \in {"returned", "raised"}

\* The first response carried `retry-after` and the reissue was answered by a
\* response without it.
RateLimitedThenPlain ==
    /\ RequestDone
    /\ Len(http) = 2
    /\ http[1].kind = "response" /\ http[1].retry_after # {}
    /\ http[2].kind = "response" /\ http[2].retry_after = {}

FirstDelay == CHOOSE d \in http[1].retry_after : TRUE

\* Exactly one reissue, of the identical request, after a wait of d + 1 s.
OneReissueAfterDelay ==
    /\ calls = 2
    /\ http[2].req = http[1].req
    /\ Len(sleeps) >= 1
    /\ sleeps[1] = <<"rate_limit", Seconds(FirstDelay + 1)>>
    /\ \A i \in 2..Len(sleeps) : sleeps[i][1] = "pacing"

\* C4 as stated: when the first response carries `retry-after` d and the
\* reissued response carries none, exactly one reissue of the identical
\* request occurs after a wait of d + 1 seconds, and the reissued response is
\* returned to the caller with no error surfaced.
C4_ReissuedResponseReturned ==
    RateLimitedThenPlain =>
        /\ OneReissueAfterDelay
        /\ rpc = "returned"
        /\ rexc = "none"
        /\ resp.call = 2

\* C4 as amended: exactly one reissue of the identical request occurs after a
\* wait of d + 1 seconds; the reissued response is returned to the caller when
\* its status is a success, and raise_for_status raises HTTPError for it when
\* its status is an error.
C4_ReissueOnceThenStatusDecides ==
    RateLimitedThenPlain =>
        /\ OneReissueAfterDelay
        /\ resp.call = 2
        /\ resp.status = http[2].status
        /\ IF http[2].status < 400
           THEN rpc = "returned" /\ rexc = "none"
           ELSE rpc = "raised" /\ rexc = "HTTPError"

\* C4: a rate-limited first response, then a 200 without the header, returned
\* after the rate-limit sleep and the pacing sleep.
C4_Witness ==
    /\ RateLimitedThenPlain
    /\ http[2].status = 200
    /\ rpc = "returned"
    /\ sleeps = <<<<"rate_limit", Seconds(FirstDelay + 1)>>, <<"pacing", sleep>>>>

\* The final HTTP call of the invocation was answered by a response.
FinalCallAnswered ==
    /\ RequestDone
    /\ Len(http) >= 1
    /\ http[Len(http)].kind = "response"

\* C11: every invocation of request sleeps `sleep` after its final HTTP call
\* and before control returns to the caller, both when the response is
\* returned and when the call fails with an HTTPError.
C11_PacingWhateverOutcome ==
    FinalCallAnswered =>
        /\ Len(sleeps) >= 1
        /\ sleeps[Len(sleeps)] = <<"pacing", sleep>>

(***************************************************************************)
(* Properties of get_json_with_retries (SpecFetch).                        *)
(***************************************************************************)
IsBackoff(s) == s[1] = "backoff"
Backoffs == SelectSeq(sleeps, IsBackoff)

TransientFailure(t) == t.exc \in {"HTTPError", "ConnectionError"}

\* A 4xx response that is no rate-limit signal ended the attempt.
ClientError(t) ==
    /\ t.exc = "HTTPError"
    /\ t.status \in 400..499
    /\ t.retry_after = {}

\* C5: a response with a 4xx status that is not a rate-limit signal is not
\* retried: the error surfaces after that attempt, with no backoff wait and
\* no further attempt.
C5_ClientErrorNotRetried ==
    \A i \in 1..Len(tries) :
        ClientError(tries[i]) =>
            /\ attempt = i
            /\ Len(Backoffs) = i - 1
            /\ fpc = "raised"

\* C6 as stated: the wait after the 1st failed attempt is 15 seconds and the
\* wait after the 2nd failed attempt is 30 seconds.
C6_Waits15Then30 ==
    /\ Len(Backoffs) >= 1 => Backoffs[1][2] = Seconds(15)
    /\ Len(Backoffs) >= 2 => Backoffs[2][2] = Seconds(30)

\* C6 as amended: the wait after the 1st failed attempt is 15 seconds and the
\* wait after the 2nd failed attempt is 15 seconds too (2 * 2^(n-1) is 2, then
\* 4, both under the floor of 15).
C6_Waits15Then15 ==
    /\ Len(Backoffs) >= 1 => Backoffs[1][2] = Seconds(15)
    /\ Len(Backoffs) >= 2 => Backoffs[2][2] = Seconds(15)

\* C6: two attempts of the blocking fetcher have failed and two waits are over.
C6_Witness ==
    /\ mode = "blocking"
    /\ Len(Backoffs) = 2
    /\ Len(tries) = 2
    /\ attempt = 3

\* C7: after 3 consecutive transient failures get_json_with_retries has
\* failed (tenacity's RetryError) at its 3rd attempt, and no 4th attempt is
\* ever made.
C7_ThreeFailuresExhaust ==
    /\ attempt <= 3
    /\ Len(tries) <= 3
    /\ (Len(tries) = 3 /\ \A i \in 1..3 : TransientFailure(tries[i])) =>
          /\ fpc = "raised"
          /\ fexc = "RetryError"
          /\ attempt = 3
          /\ rpc = "idle"
          /\ Len(Backoffs) = 2

\* C7: a connection failure, then two more transient failures, the last an
\* HTTPError: the wrapper has raised RetryError.
C7_Witness ==
    /\ Len(tries) = 3
    /\ \A i \in 1..3 : TransientFailure(tries[i])
    /\ tries[1].exc = "ConnectionError"
    /\ tries[3].exc = "HTTPError"
    /\ fexc = "RetryError"

\* The call of get_json_with_retries is over.
FetchDone == fpc \in {"returned", "raised"}

\* The server did not answer: a connection-level failure.
Unanswered(a) == a.kind # "response"

RECURSIVE BlockingRun(_, _, _)
\* What Exercism.get_json_with_retries does of the server's answers ans[i],
\* ans[i + 1], ... from attempt n on: how it ends, and the number of answers
\* it has used.  An attempt is one call, or two when the first answer carries
\* `retry-after`; it fails when its last answer is no response or has an
\* error status; the 3rd failure is final.
BlockingRun(ans, i, n) ==
    LET last == IF ~Unanswered(ans[i]) /\ ans[i].retry_after # {}
                THEN i + 1 ELSE i
    IN  IF i > Len(ans) \/ last > Len(ans)
        THEN [end |-> "running", exc |-> "none", used |-> Len(ans)]
        ELSE IF ~Unanswered(ans[last]) /\ ans[last].status < 400
        THEN [end |-> "returned", exc |-> "none", used |-> last]
        ELSE IF n >= 3
        THEN [end |-> "raised", exc |-> "RetryError", used |-> last]
        ELSE BlockingRun(ans, last + 1, n + 1)

\* C13: blocking and cooperative modes are functionally equivalent: for every
\* sequence of server responses, get_json_with_retries of either client
\* issues the same sequence of requests (every request, the rate-limit
\* reissue included, identical to the first) and ends with the same result
\* or the same failure as Exercism.get_json_with_retries.
C13_CooperativeAsBlocking ==
    FetchDone =>
        /\ \A i \in 1..Len(http) : http[i].req = http[1].req
        /\ fpc = BlockingRun(http, 1, 1).end
        /\ fexc = BlockingRun(http, 1, 1).exc
        /\ calls = BlockingRun(http, 1, 1).used
        /\ fpc = "returned" => resp.call = calls

\* C18: one call of get_json_with_retries issues at most 6 HTTP requests: at
\* most 3 attempts, each made of the original call plus at most one
\* rate-limit reissue; a reissued response that again carries `retry-after`
\* triggers no further sleep-and-reissue inside the same attempt.
C18_AtMostSixRequests ==
    /\ calls <= 6
    /\ Len(http) = calls
    /\ attempt <= 3
    /\ calls <= 2 * attempt
    /\ \A i, j \in 1..Len(sleeps) :
          (i < j /\ sleeps[i][1] = "rate_limit" /\ sleeps[j][1] = "rate_limit") =>
              \E k \in (i + 1)..(j - 1) : sleeps[k][1] = "backoff"

\* C18: three attempts of two calls each, every response, the reissued ones
\* too, carrying `retry-after` with an error status; the call has failed.
C18_Witness ==
    /\ calls = 6
    /\ fpc = "raised"
    /\ \A i \in 1..6 : http[i].kind = "response" /\ http[i].retry_after # {}
    /\ Len(SelectSeq(sleeps, LAMBDA x : x[1] = "rate_limit")) = 3

TwoFailuresThenSuccess ==
    /\ Len(tries) = 3
    /\ TransientFailure(tries[1])
    /\ TransientFailure(tries[2])
    /\ tries[3].exc = "none"

\* C8: after 2 consecutive transient failures followed by a success,
\* get_json_with_retries returns the body of the successful (last) response,
\* and exactly 2 backoff waits occurred, non-decreasing and each within
\* [15, 60] seconds.
C8_TwoFailuresThenSuccess ==
    TwoFailuresThenSuccess =>
        /\ fpc = "returned"
        /\ fexc = "none"
        /\ resp.call = calls
        /\ resp.status = 200
        /\ http[Len(http)].kind = "response"
        /\ http[Len(http)].status = resp.status
        /\ Len(Backoffs) = 2
        /\ Backoffs[1][2] <= Backoffs[2][2]
        /\ \A i \in 1..2 :
              Backoffs[i][2] >= Seconds(15) /\ Backoffs[i][2] <= Seconds(60)

\* C8: the third attempt succeeded after two transient failures.
C8_Witness ==
    /\ TwoFailuresThenSuccess
    /\ fpc = "returned"
    /\ Len(Backoffs) = 2

(***************************************************************************)
(* Properties of get_all_pages (SpecPages).                                *)
(***************************************************************************)
RECURSIVE PagesUpTo(_)
\* The records of pages 1..n, in page order.
PagesUpTo(n) == IF n = 0 THEN <<>> ELSE PagesUpTo(n - 1) \o PageResults(n)

Occurrences(seq, x) == Cardinality({i \in 1..Len(seq) : seq[i] = x})

\* The returned list is the concatenation of the pages in page order, each
\* record exactly once, and no page number was requested twice.
AllPagesInOrder ==
    /\ all_data = PagesUpTo(total_pages)
    /\ \A p \in DOMAIN page_len : \A i \in 1..page_len[p] :
          Occurrences(all_data, <<p, i>>) = 1
    /\ \A i, j \in 1..Len(page_reqs) : page_reqs[i] = page_reqs[j] => i = j
    /\ \A i \in 1..Len(page_reqs) : page_reqs[i] = ToString(i)

\* C1 as stated: the returned list is the concatenation of every page's
\* page_results in page order, each record exactly once, and the traversal issues
\* exactly total_pages page requests, no page number requested twice.
C1_ExactlyTotalPagesRequests ==
    ppc = "returned" =>
        /\ AllPagesInOrder
        /\ Len(page_reqs) = total_pages

\* C1 as amended: the same, with exactly max(1, total_pages) page requests
\* (calls of get_json_with_retries): page 1 is requested even when
\* total_pages is 0.
C1_OneRequestPerPageAtLeastOne ==
    ppc = "returned" =>
        /\ AllPagesInOrder
        /\ Len(page_reqs) = IF total_pages = 0 THEN 1 ELSE total_pages

\* C1: a blocking traversal of two pages, of 2 records and 1 record, returned.
C1_Witness ==
    /\ ppc = "returned"
    /\ mode = "blocking"
    /\ total_pages = 2
    /\ Len(page_reqs) = 2
    /\ all_data = <<<<1, 1>>, <<1, 2>>, <<2, 1>>>>

(***************************************************************************)
(* Properties of notification_pusher (SpecWatch).                          *)
(***************************************************************************)
\* C2: in the polling state a failed notifications fetch (an error status, a
\* connection failure, the 3 attempts exhausted) is swallowed and the loop
\* goes on: the watcher never terminates because of a fetch failure.
C2_PollFailureSwallowed == wpc # "raised_polling"

\* C3: a notification whose UUID was in the priming fetch is never passed to
\* the callback, and no UUID is passed to the callback more than once.
C3_DeliveredOnceNeverPrimed ==
    /\ \A u \in primed : Occurrences(delivered, u) = 0
    /\ \A u \in Uuids : Occurrences(delivered, u) <= 1

\* C3: the latest poll listed as unread a UUID of the priming fetch and a UUID
\* delivered by an earlier poll, and dispatched neither.
C3_Witness ==
    /\ wpc = "polling"
    /\ unseen = <<>>
    /\ \E u \in primed : u \in UuidSet(unread) /\ Occurrences(delivered, u) = 0
    /\ \E u \in Uuids \ primed :
          u \in UuidSet(unread) /\ Occurrences(delivered, u) = 1

(***************************************************************************)
(* Properties of the finish/nudge decision (SpecNudge).                    *)
(***************************************************************************)
\* The posts of ids[idx] have arrived.
HavePosts == DOMAIN posts = PostKinds

InSeq(seq, x) == \E i \in 1..Len(seq) : seq[i] = x

\* The instants of the posts by a mentor, and by the student.
MentorInstants == {Strptime(k.updated_at) : k \in {x \in PostKinds : posts[x] > 0 /\ ~x.by_student}}
StudentInstants == {Strptime(k.updated_at) : k \in {x \in PostKinds : posts[x] > 0 /\ x.by_student}}

SetMin(S) == CHOOSE a \in S : \A b \in S : a <= b
SetMax(S) == CHOOSE a \in S : \A b \in S : b <= a

\* referenceTime = max(firstMentorPostTime, lastStudentPostTime).
ReferenceTime ==
    IF StudentInstants = {} THEN SetMin(MentorInstants)
    ELSE Max2(SetMin(MentorInstants), SetMax(StudentInstants))

\* postsSinceUpdated: the posts with updated_at >= referenceTime.
PostsSinceReference ==
    CountPosts(posts, {k \in PostKinds : Strptime(k.updated_at) >= ReferenceTime})

Classified == npc = "decided" /\ HavePosts /\ MentorInstants # {}

\* C9 as stated: the discussion is classified as finish exactly when the
\* elapsed time now - referenceTime is greater than 300 days and
\* postsSinceUpdated > 5, and as nudge in every other case.
C9_FinishIffOver300Days ==
    Classified =>
        LET finish == Now - ReferenceTime > 300 * TicksPerDay /\ PostsSinceReference > 5 IN
        /\ InSeq(to_finish, ids[idx]) <=> finish
        /\ InSeq(to_nudge, ids[idx]) <=> ~finish

\* C9 as amended: the discussion is classified as finish exactly when the
\* whole days elapsed from referenceTime to now are more than 300, that is
\* now - referenceTime is at least 301 days, and postsSinceUpdated > 5, and
\* as nudge in every other case.
C9_FinishIffAtLeast301Days ==
    Classified =>
        LET finish == Now - ReferenceTime >= 301 * TicksPerDay /\ PostsSinceReference > 5 IN
        /\ InSeq(to_finish, ids[idx]) <=> finish
        /\ InSeq(to_nudge, ids[idx]) <=> ~finish

\* C9: two discussions classified: the first finished, the second, with 6
\* posts since a reference time between 300 and 301 days old, nudged.
C9_Witness ==
    /\ Classified
    /\ idx = 2
    /\ to_finish = <<ids[1]>>
    /\ to_nudge = <<ids[2]>>
    /\ PostsSinceReference > 5
    /\ Now - ReferenceTime > 300 * TicksPerDay
    /\ Now - ReferenceTime < 301 * TicksPerDay

\* C10: for a candidate with no post from a mentor the classifier applies a
\* guard (the discussion is skipped or classified as nudge) and does not
\* fail: the run goes on to the remaining candidates.
C10_ZeroMentorGuarded ==
    (HavePosts /\ MentorInstants = {}) =>
        /\ npc = "decided"
        /\ nexc = "none"
        /\ ~InSeq(to_finish, ids[idx])

(***************************************************************************)
(* Properties of old_mentor_discussions and failing_solutions              *)
(* (SpecDiscover).                                                         *)
(***************************************************************************)
\* The page a request of the listing is served: page 1 when it names none.
ServedPage(param) == IF param = "" THEN ToString(1) ELSE param

\* C12: old_mentor_discussions and failing_solutions traverse their listing
\* like every paginated fetch: exactly total_pages list requests are issued
\* and no page of the listing is fetched twice.
C12_ListingFetchedOncePerPage ==
    dpc = "returned" =>
        /\ Len(list_reqs) = page_count
        /\ \A i, j \in 1..Len(list_reqs) :
              ServedPage(list_reqs[i]) = ServedPage(list_reqs[j]) => i = j

\* The discussion's own updated_at is not more recent than the cutoff.
StaleItself(e) == Strptime(e.updated_at) <= Cutoff

\* Its posts were fetched, and the most recent is not more recent than the
\* cutoff.
StalePosts(e) ==
    /\ e.most_recent_post # {}
    /\ \A s \in e.most_recent_post : Strptime(s) <= Cutoff

StaleBoth(e) == StaleItself(e) /\ StalePosts(e)

\* C14: old_mentor_discussions returns a discussion's UUID if and only if
\* both its own updated_at and the maximum updated_at over its posts are not
\* more recent than the cutoff now - ageDays; posts are fetched only for
\* discussions that pass the first check; the returned UUIDs keep the order
\* in which the server listed the discussions.
C14_StaleTwiceInListingOrder ==
    op = "old_mentor_discussions" =>
        /\ \A i \in 1..Len(examined) :
              examined[i].most_recent_post # {} => StaleItself(examined[i])
        /\ dpc = "posts" => StaleItself(page_results[didx])
        /\ dpc = "returned" =>
              /\ Len(examined) = listed
              /\ \A i \in 1..Len(examined) : examined[i].uuid = i
              /\ uuids = UuidSeq(SelectSeq(examined, StaleBoth))

\* C14: two discussions listed, both with posts fetched: the first has a post
\* more recent than the cutoff, the second is exactly as old as the cutoff,
\* itself and its posts; the second alone is returned.
C14_Witness ==
    /\ op = "old_mentor_discussions"
    /\ dpc = "returned"
    /\ Len(examined) = 2
    /\ StaleItself(examined[1]) /\ examined[1].most_recent_post = {Stamp(Cutoff + 1)}
    /\ examined[2].updated_at = Stamp(Cutoff)
    /\ examined[2].most_recent_post = {Stamp(Cutoff)}
    /\ uuids = <<2>>

(***************************************************************************)
(* Properties of update_exercises (SpecSync).                              *)
(***************************************************************************)
\* The syncs the call numbered n has handed to patch.
SyncsOf(n) == {i \in 1..Len(patched) : patched[i][1] = n}

\* The second call has issued no sync, and a list it returned is empty.
SecondRunIdle ==
    /\ SyncsOf(2) = {}
    /\ spc = "returned" => updates = <<>>

ReturnedComplete ==
    /\ ppc = "returned" => all_data = PagesUpTo(total_pages)
    /\ spc = "returned" =>
          /\ ppc = "returned"
          /\ Range(updates) = flagged
          /\ Len(updates) = Cardinality(flagged)
    /\ dpc = "returned" =>
          /\ list_reqs = [i \in 1..(page_count + 1) |->
                              IF i = 1 THEN "" ELSE ToString(i - 1)]
          /\ op = "old_mentor_discussions" => Len(examined) = listed

\* A step taken once a fetch (or a sync) has failed for good ends the
\* operation with that error.
FailureAborts ==
    /\ (ppc = "fetching" /\ fpc = "raised") => (ppc' = "raised" /\ pexc' = fexc)
    /\ (spc = "paging" /\ ppc = "raised") => (spc' = "raised" /\ sexc' = pexc)
    /\ (spc = "syncing" /\ rpc = "raised") => (spc' = "raised" /\ sexc' = rexc)
    /\ (dpc \in {"counting", "listing", "posts"} /\ fpc = "raised") =>
          (dpc' = "raised" /\ dexc' = fexc)

\* C15: no partial results: when a page fetch fails permanently in the
\* middle of a traversal, get_all_pages (and update_exercises and
\* old_mentor_discussions, built on page fetches) ends with an error; the
\* caller never receives a truncated record sequence presented as complete.
C15_NoPartialResults == []ReturnedComplete /\ [][FailureAborts]_vars

\* C15: the fetch of page 2 failed for good after the records of page 1 were
\* accumulated, and get_all_pages ended with the error.
C15_Witness ==
    /\ op = "get_all_pages"
    /\ ppc = "raised"
    /\ pexc = "RetryError"
    /\ page = 2
    /\ Len(all_data) = 2

(***************************************************************************)
(* Properties of a run of nudge() (SpecDriver).                            *)
(***************************************************************************)
\* Every candidate is classified: the loop of lines 369-385 is over.
ClassificationComplete ==
    \/ npc \in {"mutating", "done"}
    \/ npc = "raised" /\ sent # <<>>

\* The run of nudge() is over.
RunOver == npc \in {"done", "raised"}

\* Every candidate is in exactly one of to_finish and to_nudge, once.
Partitioned ==
    \A i \in 1..Len(ids) :
        /\ Occurrences(to_finish, ids[i]) + Occurrences(to_nudge, ids[i]) = 1
        /\ Occurrences(ids, ids[i]) = 1

\* The mutation requests made for the candidate u.
SentFor(u) == {i \in 1..Len(sent) : sent[i][2] = u}

\* The mutation the candidate u is due: a finish PATCH or a nudge POST.
Due(u) == IF InSeq(to_finish, u) THEN <<"finish", u>> ELSE <<"nudge", u>>

\* C16 as stated: when classification completes without error, every
\* candidate returned by phase 1 is in exactly one of to_finish and to_nudge,
\* and it then receives exactly one mutation request (a finish PATCH if in
\* to_finish, a nudge POST if in to_nudge), never both and never none.
C16_ExactlyOneMutationEach ==
    (ClassificationComplete /\ RunOver) =>
        /\ Partitioned
        /\ \A i \in 1..Len(ids) :
              /\ Cardinality(SentFor(ids[i])) = 1
              /\ \A k \in SentFor(ids[i]) : sent[k] = Due(ids[i])

\* C16 as amended: when classification completes without error, every
\* candidate is in exactly one of to_finish and to_nudge; it receives at most
\* one mutation request, of the kind of its list and never of the other, and
\* exactly one when the run ends without a mutation request failing.
C16_OneMutationEachUnlessAborted ==
    ClassificationComplete =>
        /\ Partitioned
        /\ \A i \in 1..Len(ids) :
              /\ Cardinality(SentFor(ids[i])) <= 1
              /\ \A k \in SentFor(ids[i]) : sent[k] = Due(ids[i])
              /\ npc = "done" => Cardinality(SentFor(ids[i])) = 1
        /\ \A k \in 1..Len(sent) : InSeq(ids, sent[k][2])

\* C16: two candidates, one to finish and one to nudge, and the run ended
\* with the two requests made.
C16_Witness ==
    /\ npc = "done"
    /\ Len(ids) = 2
    /\ Len(to_finish) = 1
    /\ Len(to_nudge) = 1
    /\ Len(sent) = 2

\* C19: no finish or nudge mutation request is issued until every candidate
\* has been classified, and every finish request precedes every nudge
\* request; a failure during candidate discovery or classification leaves
\* zero mutations issued by the run.
C19_ClassifyBeforeAct ==
    /\ sent # <<>> =>
          /\ npc \in {"mutating", "done", "raised"}
          /\ Len(to_finish) + Len(to_nudge) = Len(ids)
    /\ \A i, j \in 1..Len(sent) :
          (sent[i][1] = "nudge" /\ sent[j][1] = "finish") => j < i
    /\ npc \in {"begin", "discovering", "start", "posts", "decided"} => sent = <<>>
    /\ (npc = "raised" /\ nexc \in {"RetryError", "ValueError"}) => sent = <<>>

\* C19: the first candidate was classified to nudge and the second to
\* finish; the finish request was made first, then the nudge request.
C19_Witness ==
    /\ ids = <<1, 2>>
    /\ to_nudge = <<1>>
    /\ to_finish = <<2>>
    /\ sent = <<<<"finish", 2>>, <<"nudge", 1>>>>

====
